---- MODULE Spec2Model ----
(***************************************************************************)
(* Signal-generation layer of the Indian stock market analyzer:            *)
(* the indicator library, the buy-the-dip evaluator, the market trend      *)
(* classifier, the CAN SLIM scorer and the batch dip scan of               *)
(* stock_utils.py, the screener loop of app.py, and the predictive         *)
(* pipeline of ai_utils.py with its callers in run_ai_scan.py and app.py.  *)
(*                                                                         *)
(* The program keeps no state between invocations: every operation gets    *)
(* its own price series and returns its own result.  The state of the      *)
(* model is therefore the frame of the latest invocation of each           *)
(* operation: its input, its locals where it runs in steps, and the value  *)
(* it returned.                                                            *)
(*                                                                         *)
(* Floating point values are modelled as exact rationals num/den with the  *)
(* two IEEE specials the code can produce (NaN from an undefined rolling   *)
(* window or 0/0, +inf from x/0); Python's None is a value of its own.     *)
(***************************************************************************)
EXTENDS Integers, Sequences, FiniteSets, TLC

VARIABLES
    op,          \* the operation this run invokes
    pc,          \* "call" before the operation has run, "done" after it returned
    data,        \* check_buy_signal: the price series passed in
    signal,      \* check_buy_signal: the dictionary returned
    hist,        \* get_market_trend: the outcome of the benchmark fetch
    trend,       \* get_market_trend: the dictionary returned
    hist_data,   \* CAN SLIM: the price series (or None)
    fund_data,   \* CAN SLIM: the fundamentals snapshot (or None)
    result,      \* CAN SLIM: the outcome of check_canslim_criteria
    dataset,     \* CAN SLIM screener: the rows appended by the loop
    stocks,      \* batch scans: the symbols, each with what its fetch does
    idx,         \* batch scans: position of the loop in stocks
    results,     \* batch scans: the entries appended so far
    stage,       \* predictive pipeline: the stage reached for the symbol
    frame,       \* predictive pipeline: locals of train_intraday_model
    ret,         \* predictive pipeline: the triple train_intraday_model returned
    prob_up,     \* predictive pipeline: what predict_next_move returned
    caller,      \* predictive pipeline: the variables of the calling loop
    sma_window,  \* indicators: the window passed to calculate_sma
    indicators,  \* indicators: the series calculate_sma and the RSIs returned
    exc          \* the exception that left the operation, '' if none

vars == <<op, pc, data, signal, hist, trend, hist_data, fund_data, result, dataset,
          stocks, idx, results, stage, frame, ret, prob_up, caller, exc,
          sma_window, indicators>>
\* the variables of the batch scans and of the predictive pipeline
batchVars == <<stocks, idx, results, stage, frame, ret, prob_up, caller, exc>>
\* the variables of the single-series operations
signalVars ==
    <<data, signal, hist, trend, hist_data, fund_data, result, dataset, sma_window,
      indicators>>

(***************************************************************************)
(* Values: Python floats and None.                                         *)
(***************************************************************************)
None == [kind |-> "None", num |-> 0, den |-> 1]
NaN  == [kind |-> "nan",  num |-> 0, den |-> 1]
Inf  == [kind |-> "inf",  num |-> 1, den |-> 1]
RECURSIVE GCD(_, _)
GCD(a, b) == IF b = 0 THEN a ELSE GCD(b, a % b)
\* the rational n/d (d > 0) in lowest terms
Num(n, d) ==
    LET g == GCD(IF n < 0 THEN -n ELSE n, d)
    IN  [kind |-> "num", num |-> n \div g, den |-> d \div g]
Flt(n) == Num(n, 1)

IsNum(x) == x.kind = "num"
IsNone(x) == x.kind = "None"

\* x < y and x > y on floats: every comparison with NaN is false.
Lt(x, y) ==
    CASE x.kind = "nan" \/ y.kind = "nan" -> FALSE
      [] x.kind = "inf" -> FALSE
      [] y.kind = "inf" -> TRUE
      [] OTHER -> x.num * y.den < y.num * x.den
Gt(x, y) == Lt(y, x)

Add(x, y) ==
    CASE x.kind = "nan" \/ y.kind = "nan" -> NaN
      [] x.kind = "inf" \/ y.kind = "inf" -> Inf
      [] OTHER -> Num(x.num * y.den + y.num * x.den, x.den * y.den)
Sub(x, y) ==
    CASE x.kind = "nan" \/ y.kind = "nan" -> NaN
      [] y.kind = "inf" -> NaN
      [] x.kind = "inf" -> Inf
      [] OTHER -> Num(x.num * y.den - y.num * x.den, x.den * y.den)
Mul(x, y) ==
    CASE x.kind = "nan" \/ y.kind = "nan" -> NaN
      [] x.kind = "inf" \/ y.kind = "inf" -> Inf
      [] OTHER -> Num(x.num * y.num, x.den * y.den)
\* numpy float division: x/0 is +inf for x > 0, NaN for x = 0; x/inf is 0.
\* Only non-negative numerators ever meet a zero or infinite denominator here.
Div(x, y) ==
    CASE x.kind = "nan" \/ y.kind = "nan" -> NaN
      [] x.kind = "inf" /\ y.kind = "inf" -> NaN
      [] x.kind = "inf" -> Inf
      [] y.kind = "inf" -> Flt(0)
      [] y.num = 0 -> IF x.num = 0 THEN NaN ELSE Inf
      [] y.num < 0 -> Num(-(x.num * y.den), -(x.den * y.num))
      [] OTHER -> Num(x.num * y.den, x.den * y.num)
Abs(x) == IF IsNum(x) /\ x.num < 0 THEN Num(-x.num, x.den) ELSE x

(***************************************************************************)
(* Strings are sequences of fragments; a number is formatted into a        *)
(* fragment of its own.                                                    *)
(***************************************************************************)
\* n/d rounded to the nearest integer, ties to even (d > 0, n >= 0)
RoundHalfEven(n, d) ==
    LET q == n \div d
        r == n % d
    IN  IF 2 * r < d THEN q
        ELSE IF 2 * r > d THEN q + 1
        ELSE IF q % 2 = 0 THEN q ELSE q + 1

\* f"{x:.1f}"
Fmt1(x) ==
    CASE x.kind = "nan" -> "nan"
      [] x.kind = "inf" -> "inf"
      [] x.kind = "None" -> "TypeError"
      [] OTHER ->
           LET neg == x.num < 0
               t   == RoundHalfEven(10 * (IF neg THEN -x.num ELSE x.num), x.den)
               txt == ToString(t \div 10) \o "." \o ToString(t % 10)
           IN  IF neg /\ t > 0 THEN "-" \o txt ELSE txt

\* sep.join(parts), each part a sequence of fragments
RECURSIVE Join(_, _)
Join(parts, sep) ==
    IF parts = <<>> THEN <<>>
    ELSE IF Len(parts) = 1 THEN parts[1]
    ELSE parts[1] \o <<sep>> \o Join(Tail(parts), sep)

(***************************************************************************)
(* Indicator library (pandas rolling windows over the Close column).       *)
(***************************************************************************)
RECURSIVE SumRange(_, _, _)
\* f[lo] + ... + f[hi]
SumRange(f, lo, hi) ==
    IF lo > hi THEN 0
    ELSE IF lo = hi THEN f[lo]
    ELSE LET mid == (lo + hi) \div 2
         IN  SumRange(f, lo, mid) + SumRange(f, mid + 1, hi)

Close(d) == [i \in 1..Len(d) |-> d[i].Close]

\* Series.rolling(window).mean(): NaN until the window is full
RollingMean_mut(s, window) ==
    [i \in 1..Len(s) |->
        IF i <= window THEN NaN
        ELSE Num(SumRange(s, i - window + 1, i), window)]
RollingMean(s, window) ==
    [i \in 1..Len(s) |->
        IF i < window THEN NaN
        ELSE Num(SumRange(s, i - window + 1, i), window)]

calculate_sma(d, window) == RollingMean(Close(d), window)

\* Close.diff(): NaN at the first bar; where(cond, 0) turns it into 0
Delta(d, i) == IF i = 1 THEN NaN ELSE Flt(d[i].Close - d[i - 1].Close)
GainAt(d, i) == IF Gt(Delta(d, i), Flt(0)) THEN Delta(d, i).num ELSE 0
LossAt(d, i) == IF Lt(Delta(d, i), Flt(0)) THEN -Delta(d, i).num ELSE 0

RsiPeriod == 14

\* line 267: rsi = 100 - (100 / (1 + rs))
rsi_of_mut(rs) == Sub(Flt(100), Div(Flt(100), rs))
rsi_of(rs) == Sub(Flt(100), Div(Flt(100), Add(Flt(1), rs)))

calculate_rsi(d) ==
    LET gain == RollingMean([i \in 1..Len(d) |-> GainAt(d, i)], RsiPeriod)
        loss == RollingMean([i \in 1..Len(d) |-> LossAt(d, i)], RsiPeriod)
    IN  [i \in 1..Len(d) |-> rsi_of(Div(gain[i], loss[i]))]

(***************************************************************************)
(* Dip signal evaluator.                                                   *)
(***************************************************************************)
MinBars == 200
SmaShort == 20
RsiOversold == 30
DipPct == 5

\* line 284: the series is too short for SMA200
insufficient_data_mut(d) == Len(d) < MinBars - 1
insufficient_data(d) == Len(d) < MinBars

\* line 311
rsi_oversold(current_rsi) == Lt(current_rsi, Flt(RsiOversold))

\* line 312
price_dip_with_trend_mut(pct, trend_positive) == Lt(pct, Flt(-DipPct)) \/ trend_positive
price_dip_with_trend(pct, trend_positive) == Lt(pct, Flt(-DipPct)) /\ trend_positive

\* line 309: current_sma_200 > prev_sma_200, false when either is NaN
sma_200_rising_mut(cur, prev) == ~Gt(prev, cur) /\ cur # prev
sma_200_rising(cur, prev) == Gt(cur, prev)

\* lines 316-320: the reasons, in the order they are appended
signal_reasons_mut(oversold, dip, current_rsi, pct) ==
    (IF dip
     THEN << <<"Price ", Fmt1(Abs(pct)), "% below 20-SMA with positive trend">> >>
     ELSE <<>>)
    \o
    (IF oversold THEN << <<"RSI oversold (", Fmt1(current_rsi), ")">> >> ELSE <<>>)
signal_reasons(oversold, dip, current_rsi, pct) ==
    (IF oversold THEN << <<"RSI oversold (", Fmt1(current_rsi), ")">> >> ELSE <<>>)
    \o
    (IF dip
     THEN << <<"Price ", Fmt1(Abs(pct)), "% below 20-SMA with positive trend">> >>
     ELSE <<>>)

check_buy_signal(d) ==
    IF insufficient_data(d) THEN
        [has_signal |-> FALSE,
         reason |-> <<"Insufficient data for analysis">>,
         rsi |-> None,
         price_vs_sma20 |-> None,
         sma200_trend |-> "None"]
    ELSE
        LET n == Len(d)
            rsi == calculate_rsi(d)
            sma_20 == calculate_sma(d, SmaShort)
            sma_200 == calculate_sma(d, MinBars)
            current_rsi == rsi[n]
            current_price == Flt(d[n].Close)
            current_sma_20 == sma_20[n]
            current_sma_200 == sma_200[n]
            prev_sma_200 == IF n > 1 THEN sma_200[n - 1] ELSE current_sma_200
            price_vs_sma20_pct ==
                Mul(Div(Sub(current_price, current_sma_20), current_sma_20), Flt(100))
            sma_200_trend_positive == sma_200_rising(current_sma_200, prev_sma_200)
            oversold == rsi_oversold(current_rsi)
            dip == price_dip_with_trend(price_vs_sma20_pct, sma_200_trend_positive)
            has_signal == oversold \/ dip
            reasons == signal_reasons(oversold, dip, current_rsi, price_vs_sma20_pct)
        IN  [has_signal |-> has_signal,
             reason |-> IF reasons # <<>> THEN Join(reasons, ", ") ELSE <<"No signal">>,
             rsi |-> current_rsi,
             price_vs_sma20 |-> price_vs_sma20_pct,
             sma200_trend |-> IF sma_200_trend_positive THEN "Positive" ELSE "Negative",
             current_price |-> current_price]

(***************************************************************************)
(* Market trend classifier.  The benchmark fetch either raises (with a     *)
(* message) or returns a series, possibly empty.                           *)
(***************************************************************************)
SmaMid == 50

Raises(msg) == [raised |-> TRUE, msg |-> msg, rows |-> <<>>]
Returns(rows) == [raised |-> FALSE, msg |-> "", rows |-> rows]

\* lines 396-407: status, color and reason from the last close and SMAs
classify_trend_mut(current_close, sma_50, sma_200) ==
    IF Gt(current_close, sma_200) /\ Gt(sma_50, sma_200) THEN
        [status |-> "Uptrend", color |-> "green",
         reason |-> "Market is in a Confirmed Uptrend (Price > 200 DMA & 50 > 200)"]
    ELSE IF Gt(current_close, sma_200) THEN
        [status |-> "Uptrend Under Pressure", color |-> "red",
         reason |-> "Price above 200 DMA but momentum weakening"]
    ELSE
        [status |-> "Market in Correction", color |-> "red",
         reason |-> "Market is in a Downtrend (Price < 200 DMA)"]
classify_trend(current_close, sma_50, sma_200) ==
    IF Gt(current_close, sma_200) /\ Gt(sma_50, sma_200) THEN
        [status |-> "Uptrend", color |-> "green",
         reason |-> "Market is in a Confirmed Uptrend (Price > 200 DMA & 50 > 200)"]
    ELSE IF Gt(current_close, sma_200) THEN
        [status |-> "Uptrend Under Pressure", color |-> "orange",
         reason |-> "Price above 200 DMA but momentum weakening"]
    ELSE
        [status |-> "Market in Correction", color |-> "red",
         reason |-> "Market is in a Downtrend (Price < 200 DMA)"]

\* fetched is the outcome of yf.Ticker("^NSEI").history(period="1y")
get_market_trend(fetched) ==
    IF fetched.raised THEN
        [status |-> "Error", color |-> "grey", reason |-> fetched.msg]
    ELSE IF fetched.rows = <<>> THEN
        [status |-> "Unknown", color |-> "grey", reason |-> "Data unavailable"]
    ELSE
        LET h == fetched.rows
            n == Len(h)
            current_close == Flt(h[n].Close)
            sma_50 == RollingMean(Close(h), SmaMid)[n]
            sma_200 == RollingMean(Close(h), MinBars)[n]
            c == classify_trend(current_close, sma_50, sma_200)
        IN  [status |-> c.status,
             color |-> c.color,
             reason |-> c.reason,
             current_price |-> current_close,
             sma_50 |-> sma_50,
             sma_200 |-> sma_200]

(***************************************************************************)
(* CAN SLIM scorer.  A dictionary is a function from its keys; the emoji   *)
(* and the rupee sign of the texts are written as ASCII names.  Market     *)
(* capitalisation is held in crore (1e7) rupees, the unit of the code's    *)
(* own comment on its floor ("2000 Cr").                                   *)
(***************************************************************************)
EmptyDict == [k \in {} |-> None]
\* d.get(k, default)
Get(d, k, default) == IF k \in DOMAIN d THEN d[k] ELSE default
\* truth value of an optional number: None and 0 are false
Truthy(x) == ~IsNone(x) /\ ~(IsNum(x) /\ x.num = 0)

QtrGrowthMin == Num(20, 100)
AnnGrowthMin == Num(15, 100)
RoeMin == Num(17, 100)
NearHighPct == 15
TurnoverFloor == 50000000
LeaderReturnMin == Num(20, 100)
MktCapFloorCr == 2000
CroreRupees == 10000000
TurnoverWindow == 20
StrongMin == 5
WatchMin == 3

Keys == <<"C", "A", "N", "S", "L", "I">>

\* lines 464-473
blank_criteria ==
    [C |-> [pass |-> FALSE, reason |-> <<>>],
     A |-> [pass |-> FALSE, reason |-> <<>>],
     N |-> [pass |-> FALSE, reason |-> <<>>],
     S |-> [pass |-> FALSE, reason |-> <<>>],
     L |-> [pass |-> FALSE, reason |-> <<>>],
     I |-> [pass |-> FALSE, reason |-> <<>>],
     Overall |-> FALSE,
     Justification |-> <<>>]

\* lines 484-489
canslim_C(qtr_growth) ==
    IF Truthy(qtr_growth) /\ Gt(qtr_growth, QtrGrowthMin) THEN
        [pass |-> TRUE,
         reason |-> <<"Strong Qtr EPS Growth: ", Fmt1(Mul(qtr_growth, Flt(100))),
                      "% (>20%)">>]
    ELSE
        [pass |-> FALSE,
         reason |-> <<"Weak Qtr EPS Growth: ">>
                    \o (IF Truthy(qtr_growth)
                        THEN <<Fmt1(Mul(qtr_growth, Flt(100))), "%">>
                        ELSE <<"N/A">>)
                    \o <<" (<20%)">>]

\* lines 496-500
canslim_A_mut(ann_growth, roe) ==
    IF (Truthy(ann_growth) /\ Gt(ann_growth, AnnGrowthMin))
       /\ (Truthy(roe) /\ Gt(roe, RoeMin)) THEN
        [pass |-> TRUE,
         reason |-> <<"Solid Annual Growth: ",
                      Fmt1(IF Truthy(ann_growth) THEN Mul(ann_growth, Flt(100)) ELSE Flt(0)),
                      "% or ROE: ",
                      Fmt1(IF Truthy(roe) THEN Mul(roe, Flt(100)) ELSE Flt(0)),
                      "%">>]
    ELSE
        [pass |-> FALSE,
         reason |-> <<"Annual Growth/ROE below targets (>15% / >17%)">>]
canslim_A(ann_growth, roe) ==
    IF (Truthy(ann_growth) /\ Gt(ann_growth, AnnGrowthMin))
       \/ (Truthy(roe) /\ Gt(roe, RoeMin)) THEN
        [pass |-> TRUE,
         reason |-> <<"Solid Annual Growth: ",
                      Fmt1(IF Truthy(ann_growth) THEN Mul(ann_growth, Flt(100)) ELSE Flt(0)),
                      "% or ROE: ",
                      Fmt1(IF Truthy(roe) THEN Mul(roe, Flt(100)) ELSE Flt(0)),
                      "%">>]
    ELSE
        [pass |-> FALSE,
         reason |-> <<"Annual Growth/ROE below targets (>15% / >17%)">>]

\* data['High'].max()
MaxHigh(d) ==
    CHOOSE h \in {d[i].High : i \in 1..Len(d)} :
        \A i \in 1..Len(d) : d[i].High <= h

\* lines 504-512
canslim_N(d) ==
    LET current_price == Flt(d[Len(d)].Close)
        high_52 == Flt(MaxHigh(d))
        dist_from_high == Mul(Div(Sub(high_52, current_price), high_52), Flt(100))
    IN  IF Lt(dist_from_high, Flt(NearHighPct)) THEN
            [pass |-> TRUE,
             reason |-> <<"Price near 52W High (", Fmt1(dist_from_high), "% below)">>]
        ELSE
            [pass |-> FALSE,
             reason |-> <<"Price >15% below 52W High (", Fmt1(dist_from_high), "%)">>]

\* Series.tail(k).mean() of a column
TailMean(col, k) ==
    LET n == Len(col)
        lo == IF n > k THEN n - k + 1 ELSE 1
    IN  Num(SumRange(col, lo, n), n - lo + 1)

\* lines 516-524
canslim_S(d) ==
    LET avg_vol == TailMean([i \in 1..Len(d) |-> d[i].Volume], TurnoverWindow)
        avg_price == TailMean(Close(d), TurnoverWindow)
        avg_turnover == Mul(avg_vol, avg_price)
    IN  IF Gt(avg_turnover, Flt(TurnoverFloor)) THEN
            [pass |-> TRUE,
             reason |-> <<"Liquid: Avg Daily Turnover Rs",
                          Fmt1(Div(avg_turnover, Flt(CroreRupees))), "Cr">>]
        ELSE
            [pass |-> FALSE,
             reason |-> <<"Illiquid: Avg Turnover Rs",
                          Fmt1(Div(avg_turnover, Flt(CroreRupees))), "Cr (<5Cr)">>]

\* lines 530-539
canslim_L(d) ==
    LET current_price == Flt(d[Len(d)].Close)
        start_price == Flt(d[1].Close)
        stock_ret == Div(Sub(current_price, start_price), start_price)
    IN  IF Gt(stock_ret, LeaderReturnMin) THEN
            [pass |-> TRUE,
             reason |-> <<"Relative Strength Leader: +",
                          Fmt1(Mul(stock_ret, Flt(100))), "% in 1yr">>]
        ELSE IF Gt(stock_ret, Flt(0)) THEN
            [pass |-> FALSE,
             reason |-> <<"Positive but weak Returns: +",
                          Fmt1(Mul(stock_ret, Flt(100))), "%">>]
        ELSE
            [pass |-> FALSE,
             reason |-> <<"Laggard: ", Fmt1(Mul(stock_ret, Flt(100))), "% return">>]

\* lines 546-552; mkt_cap/1e9 is a hundredth of the crore figure
canslim_I_mut(mkt_cap) ==
    IF Truthy(mkt_cap) /\ Gt(mkt_cap, Flt(MktCapFloorCr)) THEN
        [pass |-> TRUE,
         reason |-> <<"Inst. Base Likely (Large Cap: Rs",
                      Fmt1(Div(mkt_cap, Flt(100))), "B)">>]
    ELSE
        [pass |-> FALSE, reason |-> <<>>]
canslim_I(mkt_cap) ==
    IF Truthy(mkt_cap) /\ Gt(mkt_cap, Flt(MktCapFloorCr)) THEN
        [pass |-> TRUE,
         reason |-> <<"Inst. Base Likely (Large Cap: Rs",
                      Fmt1(Div(mkt_cap, Flt(100))), "B)">>]
    ELSE
        [pass |-> FALSE, reason |-> <<"Small Cap / Unknown Inst. Sponsorship">>]

RECURSIVE CountPass(_, _)
\* sum([1 for k in keys if criteria[k]['pass']])
CountPass(criteria, keys) ==
    IF keys = <<>> THEN 0
    ELSE (IF criteria[Head(keys)].pass THEN 1 ELSE 0) + CountPass(criteria, Tail(keys))

\* lines 559, 565, 571: the branch taken for a score
canslim_branch_strong4(score) ==
    IF score >= StrongMin - 1 THEN "strong"
    ELSE IF score >= WatchMin THEN "watch"
    ELSE "avoid"
canslim_branch_watch4(score) ==
    IF score >= StrongMin THEN "strong"
    ELSE IF score > WatchMin THEN "watch"
    ELSE "avoid"
canslim_branch(score) ==
    IF score >= StrongMin THEN "strong"
    ELSE IF score >= WatchMin THEN "watch"
    ELSE "avoid"

\* lines 558-576: Overall and the justification lines
canslim_tier(score, criteria) ==
    LET branch == canslim_branch(score)
    IN  IF branch = "strong" THEN
            [Overall |-> TRUE,
             Justification |->
                << <<":fire: **STRONG BUY CANDIDATE** (", ToString(score), "/6 Criteria)">>,
                   <<"Details:">>,
                   <<"- :white_check_mark: **Earnings**: ">> \o criteria.C.reason,
                   <<"- :white_check_mark: **Trend**: ">> \o criteria.N.reason
                       \o <<" & ">> \o criteria.L.reason >>]
        ELSE IF branch = "watch" THEN
            [Overall |-> FALSE,
             Justification |->
                << <<":warning: **WATCHLIST CANDIDATE** (", ToString(score), "/6 Criteria)">>,
                   <<"Missing some key criteria:">> >>
                \o (IF ~criteria.C.pass
                    THEN << <<"- :x: **Earnings**: ">> \o criteria.C.reason >> ELSE <<>>)
                \o (IF ~criteria.N.pass
                    THEN << <<"- :x: **Trend**: ">> \o criteria.N.reason >> ELSE <<>>)]
        ELSE
            [Overall |-> FALSE,
             Justification |->
                << <<":no_entry: **AVOID** (", ToString(score), "/6 Criteria)">>,
                   <<"- Weak Technicals/Fundamentals.">> >>]

Returned(v) == [exc |-> "", value |-> v]
Raised(e) == [exc |-> e, value |-> blank_criteria]

\* a DataFrame argument that may also be None
Frame(rows) == [rows |-> rows]

\* The outcome of check_canslim_criteria(symbol, data, fundamentals): the
\* dictionary returned, or the exception that leaves the function.
check_canslim_criteria(symbol, d, fundamentals) ==
    IF d = None \/ fundamentals = None THEN
        Returned([blank_criteria EXCEPT
                    !.Justification = << <<"Insufficient data for analysis">> >>])
    ELSE IF Len(d.rows) = 0 THEN
        \* data['Close'].iloc[-1] on an empty frame (line 504)
        Raised("IndexError")
    ELSE
        LET growth == Get(fundamentals, "growth", EmptyDict)
            qtr_growth == Get(growth, "earnings_quarterly_growth", None)
            ann_growth == Get(growth, "earnings_growth", None)
            roe == Get(Get(fundamentals, "profitability", EmptyDict),
                       "return_on_equity", None)
            mkt_cap == Get(Get(fundamentals, "valuation", EmptyDict),
                           "market_cap", Flt(0))
            scored == [blank_criteria EXCEPT
                          !.C = canslim_C(qtr_growth),
                          !.A = canslim_A(ann_growth, roe),
                          !.N = canslim_N(d.rows),
                          !.S = canslim_S(d.rows),
                          !.L = canslim_L(d.rows),
                          !.I = canslim_I(mkt_cap)]
            score == CountPass(scored, Keys)
            tier == canslim_tier(score, scored)
        IN  Returned([scored EXCEPT
                        !.Overall = tier.Overall,
                        !.Justification = tier.Justification])

\* app.py lines 800-819: one iteration of the screener loop, given what
\* fetch_stock_data and get_fundamental_data returned for the symbol
screener_row(symbol, res) ==
    [Symbol |-> symbol,
     Overall |-> res.Overall,
     Score |-> CountPass(res, Keys),
     C |-> IF res.C.pass THEN ":white_check_mark:" ELSE ":x:",
     A |-> IF res.A.pass THEN ":white_check_mark:" ELSE ":x:",
     N |-> IF res.N.pass THEN ":white_check_mark:" ELSE ":x:",
     S |-> IF res.S.pass THEN ":white_check_mark:" ELSE ":x:",
     L |-> IF res.L.pass THEN ":white_check_mark:" ELSE ":x:",
     I |-> IF res.I.pass THEN ":white_check_mark:" ELSE ":x:",
     Analysis |-> res]

(***************************************************************************)
(* Predictive pipeline of ai_utils.py.  A bar of the intraday series has   *)
(* Close, High and Low; a row of the feature table keeps the position t of *)
(* its bar in the downloaded series, which is its timestamp order.  RSI,   *)
(* the returns, the range and the label are computed exactly; MACD, its    *)
(* signal line and the Bollinger width are floats whose magnitude is not   *)
(* tracked, only whether they are defined.  A string is wrapped so that it *)
(* can stand where None can.                                               *)
(***************************************************************************)
AFloat == [kind |-> "float", num |-> 0, den |-> 1]
Str(s) == [kind |-> "str", text |-> s]
\* truth value of an optional string: None and '' are false
StrTruthy(e) == e.kind = "str" /\ e.text # ""

MinCandles == 100
MinRows == 50
BbWindow == 20
TrainTenths == 8
feature_cols ==
    <<"RSI", "MACD", "Signal_Line", "BB_Width", "Return_1", "Return_5", "Range">>

\* lines 18-22: the RSI column
ai_rsi(d) ==
    LET gain == RollingMean([i \in 1..Len(d) |-> GainAt(d, i)], RsiPeriod)
        loss == RollingMean([i \in 1..Len(d) |-> LossAt(d, i)], RsiPeriod)
    IN  [i \in 1..Len(d) |->
            LET rs == Div(gain[i], loss[i])
            IN  Sub(Flt(100), Div(Flt(100), Add(Flt(1), rs)))]

\* df['Close'].pct_change(k)
pct_change(d, i, k) ==
    IF i <= k THEN NaN ELSE Num(d[i].Close - d[i - k].Close, d[i - k].Close)

\* df['Close'].shift(-1): NaN at the last bar
shift_back(d, i) == IF i < Len(d) THEN Flt(d[i + 1].Close) ELSE NaN

\* line 46: (shift(-1) > Close).astype(int); a comparison with NaN is False
ai_target(d, i) ==
    IF Gt(shift_back(d, i), Flt(d[i].Close)) THEN Flt(1) ELSE Flt(0)

\* the bars whose prices a row's features are computed from: diff, rolling,
\* pct_change and ewm (lines 18-43) read the bar and earlier bars only
feature_deps(d, i) == 1..i
\* the bars a row's label is computed from (line 46): the bar and its successor
label_deps(d, i) == IF i < Len(d) THEN {i, i + 1} ELSE {i}

\* lines 17-46: the row of bar i before dropna
feature_row(d, i, rsi) ==
    [t |-> i,
     RSI |-> rsi[i],
     MACD |-> AFloat,
     Signal_Line |-> AFloat,
     BB_Width |-> IF i < BbWindow THEN NaN ELSE AFloat,
     Return_1 |-> pct_change(d, i, 1),
     Return_5 |-> pct_change(d, i, 5),
     Range |-> Num(d[i].High - d[i].Low, d[i].Close),
     Target |-> ai_target(d, i)]

\* a row survives DataFrame.dropna() when none of its cells is NaN
notna(row) ==
    /\ \A k \in 1..Len(feature_cols) : row[feature_cols[k]].kind # "nan"
    /\ row.Target.kind # "nan"

prepare_ai_features(d) ==
    LET rsi == ai_rsi(d)
    IN  SelectSeq([i \in 1..Len(d) |-> feature_row(d, i, rsi)], notna)

\* line 63
too_few_candles_mut(d) == Len(d) <= MinCandles
too_few_candles(d) == Len(d) = 0 \/ Len(d) < MinCandles

\* line 82: int(len(X) * 0.8)
split_index_mut(n) == (TrainTenths * n) \div 10 + 1
split_index(n) == (TrainTenths * n) \div 10
\* lines 83-84: iloc[:split] and iloc[split:]
iloc_head(df, split) == SubSeq(df, 1, split)
iloc_tail(df, split) == SubSeq(df, split + 1, Len(df))
\* the index (timestamps) of a table
index_of(df) == [k \in 1..Len(df) |-> df[k].t]

\* the triple returned by train_intraday_model
Failure_mut(reason) == [model |-> None, train_info |-> None, error |-> None]
Failure(reason) == [model |-> None, train_info |-> None, error |-> Str(reason)]
Success(model, train_info) ==
    [model |-> model, train_info |-> train_info, error |-> None]

\* sklearn accuracy_score(y_test, preds) for a classifier that answers
\* `answer` on every test row
accuracy_score(y_test, answer) ==
    Num(Cardinality({k \in 1..Len(y_test) : y_test[k] = Flt(answer)}), Len(y_test))

\* predict_next_move (lines 109-123); proba is what model.predict_proba
\* does on the one-row frame: it raises or answers the class-1 probability
predict_fallback_mut(model, proba) == model # None /\ proba.raised
predict_fallback(model, proba) == model = None \/ proba.raised
predict_next_move(model, last_data_point, cols, proba) ==
    IF predict_fallback(model, proba) THEN Num(1, 2) ELSE proba.p

Half == Num(1, 2)
StrongUp == Num(60, 100)
StrongDown == Num(40, 100)

\* the callers' reading of the probability
is_bullish_mut(prob) == ~Lt(prob, Half)
is_bullish(prob) == Gt(prob, Half)
confidence_of(prob) == IF is_bullish(prob) THEN prob ELSE Sub(Flt(1), prob)

\* run_ai_scan.py lines 29-36
scan_market_entry(symbol, prob) ==
    IF Gt(prob, StrongUp) \/ Lt(prob, StrongDown) THEN
        <<[Symbol |-> symbol,
           Signal |-> IF is_bullish(prob) THEN "Bullish" ELSE "Bearish",
           Confidence |-> confidence_of(prob)]>>
    ELSE <<>>

\* app.py lines 990-999
index_scanner_entry(symbol, prob, train_info) ==
    <<[Symbol |-> symbol,
       Signal |-> IF is_bullish(prob) THEN "Bullish :green_circle:"
                  ELSE "Bearish :red_circle:",
       Probability |-> prob,
       Confidence |-> confidence_of(prob),
       Accuracy |-> train_info.accuracy]>>

\* app.py lines 922-927: what the single-stock view shows
single_stock_entry(symbol, prob) ==
    <<[Symbol |-> symbol,
       Signal |-> IF is_bullish(prob) THEN "BULLISH :green_circle:"
                  ELSE "BEARISH :red_circle:",
       Confidence |-> confidence_of(prob)]>>

(***************************************************************************)
(* Batch dip scan of stock_utils.py.  fetched is what ticker.history does  *)
(* for the symbol: it raises or returns a series, possibly empty.          *)
(***************************************************************************)
Msg(frags) == [kind |-> "str", frags |-> frags]
\* truth value of an optional formatted string
MsgTruthy(e) == e.kind = "str" /\ \E i \in DOMAIN e.frags : e.frags[i] # ""

\* lines 23-48: the pair (data, error)
fetch_stock_data(symbol, fetched) ==
    IF fetched.raised THEN
        [data |-> None,
         error |-> Msg(<<"Error fetching data for ", symbol, ": ", fetched.msg>>)]
    ELSE IF fetched.rows = <<>> THEN
        [data |-> None, error |-> Msg(<<"No data found for symbol: ", symbol>>)]
    ELSE [data |-> Frame(fetched.rows), error |-> None]

\* dict[key] = value on a dictionary held as a function
WithKey(d, key, value) ==
    [k \in DOMAIN d \cup {key} |-> IF k = key THEN value ELSE d[k]]

\* lines 349-367: the entry appended for one symbol
scan_failed(got) == MsgTruthy(got.error) \/ got.data = None
\* line 355: error or 'No data'
scan_reason_mut(error) == <<"No data">>
scan_reason(error) == IF MsgTruthy(error) THEN error.frags ELSE <<"No data">>
scan_entry(symbol, fetched) ==
    LET got == fetch_stock_data(symbol, fetched)
    IN  IF scan_failed(got) THEN
            [symbol |-> symbol,
             has_signal |-> FALSE,
             reason |-> scan_reason(got.error),
             rsi |-> None,
             price_vs_sma20 |-> None,
             sma200_trend |-> "None",
             current_price |-> None,
             error |-> TRUE]
        ELSE
            WithKey(WithKey(check_buy_signal(got.data.rows), "symbol", symbol),
                    "error", FALSE)

(***************************************************************************)
(* Inputs: price series.  A series is a head of bars at one price, a       *)
(* middle at the base price and a tail of freely chosen closes, so that    *)
(* the last bar's RSI, its distance from SMA20 and the direction of        *)
(* SMA200 all vary.                                                        *)
(***************************************************************************)
MaxExtra == 1     \* series lengths reach MinBars + MaxExtra
TailLen == 2      \* freely chosen closes at the end of a series
HeadLen == 2      \* bars at the head price
BasePrice == 100
Prices == {80, 90, 96, 100, 110}
BaseVolume == 500000

RECURSIVE Tuples(_, _)
\* all sequences of length n over S
Tuples(S, n) ==
    IF n = 0 THEN {<<>>}
    ELSE {Append(t, x) : t \in Tuples(S, n - 1), x \in S}

Bar(c, h, v) == [Close |-> c, High |-> h, Volume |-> v]

\* n bars: the head price, then the base price, then the tail; every High
\* lies spread above its Close
MkSeries(n, head, tail, spread, vol) ==
    [i \in 1..n |->
        LET c == IF i > n - Len(tail) THEN tail[i - (n - Len(tail))]
                 ELSE IF i <= HeadLen THEN head
                 ELSE BasePrice
        IN  Bar(c, c + spread, vol)]

SeriesLens == {0, 1} \cup ((MinBars - 1)..(MinBars + MaxExtra))

DipInputs ==
    {MkSeries(n, h, t, 0, BaseVolume) :
        n \in SeriesLens, h \in Prices, t \in Tuples(Prices, TailLen)}

FetchErrors == {"", "HTTP Error 404", "Read timed out"}
TrendLens == {0, 1, SmaMid - 1, SmaMid} \cup ((MinBars - 1)..(MinBars + MaxExtra))

TrendInputs ==
    {Raises(m) : m \in FetchErrors}
    \cup {Returns(MkSeries(n, h, t, 0, BaseVolume)) :
            n \in TrendLens, h \in Prices, t \in Tuples(Prices, TailLen)}

Symbols == {"RELIANCE"}
Spreads == {0, 10}
Volumes == {400000, 500000}
HeadPrices == {80, 100}
CanslimLens == {0, 1} \cup ((TurnoverWindow + 1)..(TurnoverWindow + 1 + MaxExtra))

CanslimSeries ==
    {Frame(MkSeries(n, h, t, sp, v)) :
        n \in CanslimLens, h \in HeadPrices, t \in Tuples(Prices, 1),
        sp \in Spreads, v \in Volumes}

\* the indicator functions on their own: every short series over three
\* prices, and series just longer than the RSI period
ShortLen == 3
IndicatorInputs ==
    {[i \in 1..Len(t) |-> Bar(t[i], t[i], BaseVolume)] :
        t \in UNION {Tuples({90, 100, 110}, k) : k \in 1..ShortLen}}
    \cup {MkSeries(n, h, t, 0, BaseVolume) :
            n \in (RsiPeriod + 1)..(RsiPeriod + 1 + MaxExtra),
            h \in HeadPrices, t \in Tuples(Prices, TailLen)}

\* the sections of get_fundamental_data that the scorer reads
MkFunds(q, a, r, c) ==
    [growth |-> [earnings_quarterly_growth |-> q, earnings_growth |-> a],
     profitability |-> [return_on_equity |-> r],
     valuation |-> [market_cap |-> c]]

QtrGrowths == {None, Num(20, 100), Num(25, 100)}
AnnGrowths == {None, Num(15, 100), Num(18, 100)}
Roes == {None, Num(17, 100), Num(20, 100)}
MktCapsCr == {None, Flt(2000), Flt(3000)}

\* snapshots in which the provider reports a metric as 0
ZeroFunds ==
    {MkFunds(Flt(0), a, r, c) :
        a \in {None, Flt(0)}, r \in {Flt(0), Num(20, 100)}, c \in {Flt(0), Flt(3000)}}

FundsInputs ==
    {MkFunds(q, a, r, c) :
        q \in QtrGrowths, a \in AnnGrowths, r \in Roes, c \in MktCapsCr}
    \cup {EmptyDict,
          [growth |-> EmptyDict, profitability |-> EmptyDict, valuation |-> EmptyDict]}
    \cup ZeroFunds

\* intraday series: flat, alternating, rising, or flat for the first
\* FlatLen (late) or FlatLen - 9 (mid) bars and alternating after; the
\* last close is lifted by `lift`
FlatLen == 60
Shapes == {"flat", "zigzag", "rising", "late", "mid"}
IBar(c) == [Close |-> c, High |-> c + 1, Low |-> c - 1]
MkIntraday(n, shape, lift) ==
    [i \in 1..n |->
        LET c == CASE shape = "flat" -> BasePrice
                   [] shape = "zigzag" -> BasePrice + (i % 2)
                   [] shape = "rising" -> BasePrice + i
                   [] shape = "late" ->
                        IF i <= FlatLen THEN BasePrice ELSE BasePrice + (i % 2)
                   [] OTHER -> IF i <= FlatLen - 9 THEN BasePrice
                               ELSE BasePrice + 1 + (i % 2)
        IN  IBar(IF i = n THEN c + lift ELSE c)]
Lifts == {0, 3}
IntradayLens == {0, 1} \cup ((MinCandles - 1)..(MinCandles + MaxExtra))
DownloadOutcomes ==
    {Raises(m) : m \in FetchErrors}
    \cup {Returns(MkIntraday(n, sh, l)) : n \in IntradayLens, sh \in Shapes, l \in Lifts}

\* what a library call inside the try block does: it returns or it raises
LibraryErrors == {"", "XGBoostError"}
Probabilities ==
    {Flt(0), Num(3, 10), Num(2, 5), Num(1, 2), Num(3, 5), Num(7, 10), Flt(1)}
ProbaOutcomes ==
    {[raised |-> TRUE, p |-> NaN]} \cup {[raised |-> FALSE, p |-> q] : q \in Probabilities}

\* the batch callers of the pipeline and the downloads of their symbols
BatchCallers == {"scan_market", "index_scanner"}
\* the n-th symbol's download raises or returns the symbol's own series
BatchDownloads(n) ==
    {Raises(""), Raises("Read timed out"),
     Returns(MkIntraday(MinCandles, IF n % 2 = 1 THEN "rising" ELSE "zigzag", 0))}

\* the batch dip scan: up to MaxStocks symbols, each with its fetch outcome
MaxStocks == 2
ScanSymbols == {"RELIANCE", "TCS"}
ScanFetches ==
    {Raises("Read timed out")}
    \cup {Returns(MkSeries(n, BasePrice, <<80, 80>>, 0, BaseVolume)) : n \in {0, 1, MinBars}}
    \cup {Returns(MkSeries(MinBars, BasePrice, <<BasePrice, BasePrice>>, 0, BaseVolume))}
Stock(symbol, fetched) == [symbol |-> symbol, fetched |-> fetched]
RECURSIVE StockLists(_)
StockLists(n) ==
    IF n = 0 THEN {<<>>}
    ELSE StockLists(n - 1)
         \cup {Append(l, Stock(sy, f)) :
                 l \in {x \in StockLists(n - 1) : Len(x) = n - 1},
                 sy \in ScanSymbols, f \in ScanFetches}

\* lists of 2..MaxStocks distinct symbols, each with its download
RECURSIVE DownloadLists(_)
DownloadLists(n) ==
    IF n = 0 THEN {<<>>}
    ELSE {Append(l, Stock(<<"RELIANCE", "TCS", "INFY", "HDFCBANK">>[n], f)) :
             l \in DownloadLists(n - 1), f \in BatchDownloads(n)}

(***************************************************************************)
(* State machine: a run draws its input, invokes one operation and ends.   *)
(***************************************************************************)
NoSignal == [has_signal |-> FALSE, reason |-> <<>>, rsi |-> None,
             price_vs_sma20 |-> None, sma200_trend |-> "None"]

NoTrend == [status |-> "", color |-> "", reason |-> ""]
NoResult == [exc |-> "not called", value |-> blank_criteria]

IdleDip == data = <<>> /\ signal = NoSignal
IdleTrend == hist = Returns(<<>>) /\ trend = NoTrend
IdleCanslim ==
    hist_data = None /\ fund_data = None /\ result = NoResult /\ dataset = <<>>
NoFrame == [data |-> <<>>, df_model |-> <<>>, split |-> 0, train |-> <<>>,
            test |-> <<>>, model |-> None, acc |-> None, proba |-> None,
            args |-> None]
NoRet == [model |-> None, train_info |-> None, error |-> None]
\* the loop's model, train_info and error before the first call, its
\* error_count, and the exception the loop body raised ('' if none)
NoCaller == [model |-> None, train_info |-> None, error |-> None,
             error_count |-> 0, raised |-> ""]
NoIndicators == [sma |-> <<>>, rsi |-> <<>>, ai_rsi |-> <<>>]
IdleBatch ==
    /\ stocks = <<>> /\ idx = 0 /\ results = <<>> /\ stage = "" /\ frame = NoFrame
    /\ ret = NoRet /\ prob_up = None /\ caller = NoCaller /\ exc = ""
IdleIndicators == sma_window = 0 /\ indicators = NoIndicators
IdleSignals == IdleDip /\ IdleTrend /\ IdleCanslim /\ IdleIndicators

InitDip ==
    /\ op = "check_buy_signal"
    /\ pc = "call"
    /\ data \in DipInputs
    /\ signal = NoSignal
    /\ IdleTrend
    /\ IdleCanslim
    /\ IdleIndicators
    /\ IdleBatch

CheckBuySignal ==
    /\ op = "check_buy_signal"
    /\ pc = "call"
    /\ signal' = check_buy_signal(data)
    /\ pc' = "done"
    /\ UNCHANGED <<op, data, hist, trend, hist_data, fund_data, result, dataset>>
    /\ UNCHANGED <<sma_window, indicators, batchVars>>

NextDip == CheckBuySignal
SpecDip == InitDip /\ [][NextDip]_vars

InitTrend ==
    /\ op = "get_market_trend"
    /\ pc = "call"
    /\ hist \in TrendInputs
    /\ trend = NoTrend
    /\ IdleDip
    /\ IdleCanslim
    /\ IdleIndicators
    /\ IdleBatch

GetMarketTrend ==
    /\ op = "get_market_trend"
    /\ pc = "call"
    /\ trend' = get_market_trend(hist)
    /\ pc' = "done"
    /\ UNCHANGED <<op, hist, data, signal, hist_data, fund_data, result, dataset>>
    /\ UNCHANGED <<sma_window, indicators, batchVars>>

NextTrend == GetMarketTrend
SpecTrend == InitTrend /\ [][NextTrend]_vars

\* check_canslim_criteria is called with any series and fund_data; the
\* screener loop gets from fetch_stock_data a non-empty series or None.
InitCanslim ==
    /\ pc = "call"
    /\ \/ /\ op = "check_canslim_criteria"
          /\ hist_data \in CanslimSeries \cup {None}
       \/ /\ op = "canslim_screener"
          /\ hist_data \in {d \in CanslimSeries : Len(d.rows) > 0} \cup {None}
    /\ fund_data \in FundsInputs \cup {None}
    /\ result = NoResult
    /\ dataset = <<>>
    /\ IdleDip
    /\ IdleTrend
    /\ IdleIndicators
    /\ IdleBatch

CheckCanslimCriteria ==
    /\ op = "check_canslim_criteria"
    /\ pc = "call"
    /\ \E symbol \in Symbols :
          result' = check_canslim_criteria(symbol, hist_data, fund_data)
    /\ pc' = "done"
    /\ UNCHANGED <<op, hist_data, fund_data, dataset, data, signal, hist, trend>>
    /\ UNCHANGED <<sma_window, indicators, batchVars>>

\* app.py lines 800-819
CanslimScreenerStep ==
    /\ op = "canslim_screener"
    /\ pc = "call"
    /\ \E symbol \in Symbols :
          IF hist_data # None /\ fund_data # None THEN
              LET out == check_canslim_criteria(symbol, hist_data, fund_data)
              IN  /\ result' = out
                  /\ dataset' = IF out.exc = ""
                                THEN Append(dataset, screener_row(symbol, out.value))
                                ELSE dataset
          ELSE UNCHANGED <<result, dataset>>
    /\ pc' = "done"
    /\ UNCHANGED <<op, hist_data, fund_data, data, signal, hist, trend>>
    /\ UNCHANGED <<sma_window, indicators, batchVars>>

NextCanslim == CheckCanslimCriteria \/ CanslimScreenerStep
SpecCanslim == InitCanslim /\ [][NextCanslim]_vars

\* calculate_sma, calculate_rsi and the RSI column of prepare_ai_features
\* called on a series, calculate_sma with any window up to its length
InitIndicators ==
    /\ op = "indicators"
    /\ pc = "call"
    /\ data \in IndicatorInputs
    /\ sma_window \in 1..Len(data)
    /\ indicators = NoIndicators
    /\ signal = NoSignal
    /\ IdleTrend
    /\ IdleCanslim
    /\ IdleBatch

CalculateIndicators ==
    /\ op = "indicators"
    /\ pc = "call"
    /\ indicators' = [sma |-> calculate_sma(data, sma_window),
                      rsi |-> calculate_rsi(data),
                      ai_rsi |-> ai_rsi(data)]
    /\ pc' = "done"
    /\ UNCHANGED <<op, data, sma_window, signal, hist, trend, hist_data, fund_data,
                   result, dataset, batchVars>>

SpecIndicators == InitIndicators /\ [][CalculateIndicators]_vars

(***************************************************************************)
(* The predictive pipeline, one step per stage.  A caller (scan_market,    *)
(* the single-stock view or the index scanner of app.py) runs              *)
(* train_intraday_model for the symbol at stocks[idx] and, when no error   *)
(* came back, predict_next_move.  Every library call made inside the try   *)
(* block either returns or raises.                                         *)
(***************************************************************************)
Callers == {"scan_market", "single_stock", "index_scanner"}
NoFault == [raised |-> FALSE, msg |-> ""]
Fault(m) == [raised |-> TRUE, msg |-> m]
LibraryOutcomes == {NoFault} \cup {Fault(m) : m \in LibraryErrors}
\* a fitted classifier: the symbol and the rows (by timestamp) it was fitted on
Model(symbol, fitted) == [kind |-> "XGBClassifier", symbol |-> symbol, fitted |-> fitted]

InitAi ==
    /\ op \in Callers
    /\ pc = "call"
    /\ stocks \in {<<Stock(sy, f)>> : sy \in Symbols, f \in DownloadOutcomes}
    /\ idx = 1
    /\ results = <<>>
    /\ stage = "Idle"
    /\ frame = NoFrame
    /\ ret = NoRet
    /\ prob_up = None
    /\ caller = NoCaller
    /\ exc = ""
    /\ IdleSignals

\* the index scanner and scan_market over a list of several symbols
InitAiBatch ==
    /\ op \in BatchCallers
    /\ pc = "call"
    /\ stocks \in UNION {DownloadLists(n) : n \in 2..MaxStocks}
    /\ idx = 1
    /\ results = <<>>
    /\ stage = "Idle"
    /\ frame = NoFrame
    /\ ret = NoRet
    /\ prob_up = None
    /\ caller = NoCaller
    /\ exc = ""
    /\ IdleSignals

\* model, train_info, error = train_intraday_model(symbol)
bind_mut(c, r) ==
    IF c.model # None THEN c
    ELSE [c EXCEPT !.model = r.model, !.train_info = r.train_info, !.error = r.error]
bind(c, r) ==
    [c EXCEPT !.model = r.model, !.train_info = r.train_info, !.error = r.error]

\* the except clause, and the two early returns, of train_intraday_model
FailWith(reason) ==
    /\ stage' = "Failed"
    /\ ret' = Failure(reason)
    /\ caller' = bind(caller, Failure(reason))
    /\ UNCHANGED frame

\* the stage reached when a step succeeds
next_stage_mut(st) ==
    CASE st = "Idle" -> "Fetched"
      [] st = "Fetched" -> "Featurized"
      [] st = "Featurized" -> "Trained"
      [] st = "Split" -> "Trained"
      [] st = "Trained" -> "Evaluated"
      [] st = "Evaluated" -> "Predicted"
      [] OTHER -> "Done"
next_stage(st) ==
    CASE st = "Idle" -> "Fetched"
      [] st = "Fetched" -> "Featurized"
      [] st = "Featurized" -> "Split"
      [] st = "Split" -> "Trained"
      [] st = "Trained" -> "Evaluated"
      [] st = "Evaluated" -> "Predicted"
      [] OTHER -> "Done"

\* line 61: yf.download
Fetch ==
    /\ op \in Callers /\ pc = "call" /\ stage = "Idle"
    /\ LET f == stocks[idx].fetched
       IN  IF f.raised THEN FailWith(f.msg)
           ELSE /\ frame' = [frame EXCEPT !.data = f.rows]
                /\ stage' = next_stage(stage)
                /\ UNCHANGED <<ret, caller>>
    /\ UNCHANGED <<op, pc, stocks, idx, results, prob_up, exc, signalVars>>

\* lines 63-71: input validation, then prepare_ai_features
Featurize ==
    /\ op \in Callers /\ pc = "call" /\ stage = "Fetched"
    /\ IF too_few_candles(frame.data)
       THEN FailWith("Insufficient intraday data (need >100 candles)")
       ELSE \E e \in LibraryOutcomes :
               IF e.raised THEN FailWith(e.msg)
               ELSE /\ frame' = [frame EXCEPT !.df_model = prepare_ai_features(frame.data)]
                    /\ stage' = next_stage(stage)
                    /\ UNCHANGED <<ret, caller>>
    /\ UNCHANGED <<op, pc, stocks, idx, results, prob_up, exc, signalVars>>

\* line 73
too_few_rows_mut(df) == Len(df) < MinRows - 1
too_few_rows(df) == Len(df) < MinRows

\* lines 73-84
SplitStep ==
    /\ op \in Callers /\ pc = "call" /\ stage = "Featurized"
    /\ IF too_few_rows(frame.df_model)
       THEN FailWith("Not enough data after feature engineering")
       ELSE /\ LET split == split_index(Len(frame.df_model))
               IN  frame' = [frame EXCEPT !.split = split,
                                          !.train = iloc_head(frame.df_model, split),
                                          !.test = iloc_tail(frame.df_model, split)]
            /\ stage' = next_stage(stage)
            /\ UNCHANGED <<ret, caller>>
    /\ UNCHANGED <<op, pc, stocks, idx, results, prob_up, exc, signalVars>>

\* lines 87-94: model.fit(X_train, y_train)
Train ==
    /\ op \in Callers /\ pc = "call" /\ stage = "Split"
    /\ \E e \in LibraryOutcomes :
          IF e.raised THEN FailWith(e.msg)
          ELSE /\ frame' = [frame EXCEPT
                               !.model = Model(stocks[idx].symbol, index_of(frame.train))]
               /\ stage' = next_stage(stage)
               /\ UNCHANGED <<ret, caller>>
    /\ UNCHANGED <<op, pc, stocks, idx, results, prob_up, exc, signalVars>>

\* the labels of the test rows, y.iloc[split:]
y_test(test) == [k \in 1..Len(test) |-> test[k].Target]

\* lines 97-98: model.predict(X_test) and accuracy_score
Evaluate ==
    /\ op \in Callers /\ pc = "call" /\ stage = "Trained"
    /\ \E e \in LibraryOutcomes, answer \in {0, 1} :
          IF e.raised THEN FailWith(e.msg)
          ELSE /\ frame' = [frame EXCEPT
                               !.acc = accuracy_score(y_test(frame.test), answer)]
               /\ stage' = next_stage(stage)
               /\ UNCHANGED <<ret, caller>>
    /\ UNCHANGED <<op, pc, stocks, idx, results, prob_up, exc, signalVars>>

\* lines 100-104
train_info_of(fr) ==
    [accuracy |-> fr.acc,
     last_data |-> fr.df_model[Len(fr.df_model)],
     feature_cols |-> feature_cols]

\* the return of train_intraday_model and the caller's predict_next_move
\* (run_ai_scan.py 24-26, app.py 901-915 and 987-990)
ReturnAndPredict ==
    /\ op \in Callers /\ pc = "call" /\ stage = "Evaluated"
    /\ LET r == Success(frame.model, train_info_of(frame))
           c == bind(caller, r)
       IN  /\ ret' = r
           /\ caller' = c
           /\ ~StrTruthy(c.error)
           /\ \E proba \in ProbaOutcomes :
                 /\ prob_up' = predict_next_move(c.model, c.train_info.last_data,
                                                 c.train_info.feature_cols, proba)
                 /\ frame' = [frame EXCEPT
                        !.proba = proba,
                        !.args = [model |-> c.model,
                                  last_data |-> c.train_info.last_data,
                                  feature_cols |-> c.train_info.feature_cols]]
    /\ stage' = next_stage(stage)
    /\ UNCHANGED <<op, pc, stocks, idx, results, exc, signalVars>>

\* the loop goes on to the next symbol, or ends after the last one
after_symbol(i, list) == IF i < Len(list) THEN "next" ELSE "done"

\* the caller's reading of prob_up
ReportSignal ==
    /\ op \in Callers /\ pc = "call" /\ stage = "Predicted"
    /\ results' = results \o
          (CASE op = "scan_market" -> scan_market_entry(stocks[idx].symbol, prob_up)
             [] op = "index_scanner" ->
                  index_scanner_entry(stocks[idx].symbol, prob_up, caller.train_info)
             [] OTHER -> single_stock_entry(stocks[idx].symbol, prob_up))
    /\ stage' = next_stage(stage)
    /\ pc' = after_symbol(idx, stocks)
    /\ UNCHANGED <<op, stocks, idx, frame, ret, prob_up, caller, exc, signalVars>>

\* the caller after a failure triple: a true error is skipped (the index
\* scanner counts it); an error of '' is not, and train_info['last_data']
\* on None raises TypeError, which only scan_market catches
CallerOnFailure ==
    /\ op \in Callers /\ pc = "call" /\ stage = "Failed"
    /\ IF StrTruthy(caller.error)
       THEN /\ caller' = [caller EXCEPT !.error_count =
                              IF op = "index_scanner" THEN @ + 1 ELSE @]
            /\ exc' = ""
            /\ pc' = after_symbol(idx, stocks)
       ELSE /\ caller' = [caller EXCEPT !.raised = "TypeError"]
            /\ exc' = IF op = "scan_market" THEN "" ELSE "TypeError"
            /\ pc' = IF op = "scan_market" THEN after_symbol(idx, stocks) ELSE "done"
    /\ UNCHANGED <<op, stocks, idx, results, stage, frame, ret, prob_up, signalVars>>

\* the next iteration of the loop: model, train_info and error keep their
\* values until the next call returns
NextSymbol ==
    /\ op \in BatchCallers /\ pc = "next"
    /\ idx' = idx + 1
    /\ stage' = "Idle"
    /\ frame' = NoFrame
    /\ ret' = NoRet
    /\ prob_up' = None
    /\ caller' = [caller EXCEPT !.raised = ""]
    /\ pc' = "call"
    /\ UNCHANGED <<op, stocks, results, exc, signalVars>>

\* predict_next_move called on its own with any model, row and column list
SampleRow ==
    LET d == MkIntraday(BbWindow, "zigzag", 0)
    IN  feature_row(d, BbWindow, ai_rsi(d))
PredictArgs ==
    {[model |-> mo,
      train_info |-> [accuracy |-> Half, last_data |-> row, feature_cols |-> cols],
      error |-> None] :
        mo \in {None, Model("RELIANCE", <<1, 2>>)},
        row \in {SampleRow, [k \in DOMAIN SampleRow \ {"RSI"} |-> SampleRow[k]]},
        cols \in {feature_cols, Tail(feature_cols)}}

InitPredict ==
    /\ op = "predict_next_move"
    /\ pc = "call"
    /\ ret \in PredictArgs
    /\ stocks = <<>> /\ idx = 0 /\ results = <<>> /\ stage = "" /\ frame = NoFrame
    /\ prob_up = None /\ caller = NoCaller /\ exc = ""
    /\ IdleSignals

PredictNextMove ==
    /\ op = "predict_next_move" /\ pc = "call"
    /\ \E proba \in ProbaOutcomes :
          /\ prob_up' = predict_next_move(ret.model, ret.train_info.last_data,
                                          ret.train_info.feature_cols, proba)
          /\ frame' = [frame EXCEPT !.proba = proba]
    /\ pc' = "done"
    /\ UNCHANGED <<op, stocks, idx, results, stage, ret, caller, exc, signalVars>>

NextAi ==
    \/ Fetch \/ Featurize \/ SplitStep \/ Train \/ Evaluate
    \/ ReturnAndPredict \/ ReportSignal \/ CallerOnFailure \/ PredictNextMove
SpecAi == (InitAi \/ InitPredict) /\ [][NextAi]_vars

NextAiBatch ==
    \/ Fetch \/ Featurize \/ SplitStep \/ Train \/ Evaluate
    \/ ReturnAndPredict \/ ReportSignal \/ CallerOnFailure \/ NextSymbol
SpecAiBatch == InitAiBatch /\ [][NextAiBatch]_vars

(***************************************************************************)
(* scan_stocks_for_dips: one step per symbol of the list.                  *)
(***************************************************************************)
InitScan ==
    /\ op = "scan_stocks_for_dips"
    /\ pc = "call"
    /\ stocks \in StockLists(MaxStocks)
    /\ idx = 1
    /\ results = <<>>
    /\ stage = "" /\ frame = NoFrame /\ ret = NoRet /\ prob_up = None
    /\ caller = NoCaller /\ exc = ""
    /\ IdleSignals

\* lines 345-367: the loop body
ScanStep ==
    /\ op = "scan_stocks_for_dips" /\ pc = "call" /\ idx <= Len(stocks)
    /\ results' = Append(results, scan_entry(stocks[idx].symbol, stocks[idx].fetched))
    /\ idx' = idx + 1
    /\ UNCHANGED <<op, pc, stocks, stage, frame, ret, prob_up, caller, exc, signalVars>>

\* line 369
ScanReturn ==
    /\ op = "scan_stocks_for_dips" /\ pc = "call" /\ idx > Len(stocks)
    /\ pc' = "done"
    /\ UNCHANGED <<op, stocks, idx, results, stage, frame, ret, prob_up, caller, exc,
                   signalVars>>

NextScan == ScanStep \/ ScanReturn
SpecScan == InitScan /\ [][NextScan]_vars

Init ==
    \/ InitDip \/ InitTrend \/ InitCanslim \/ InitIndicators \/ InitAi
    \/ InitAiBatch \/ InitPredict \/ InitScan
Next ==
    \/ CheckBuySignal \/ GetMarketTrend \/ CheckCanslimCriteria \/ CanslimScreenerStep
    \/ CalculateIndicators \/ NextAi \/ NextSymbol \/ NextScan
Spec == Init /\ [][Next]_vars

(***************************************************************************)
(* Properties of the dip signal evaluator.  The conditions are restated    *)
(* over the raw closes in integer arithmetic.                              *)
(***************************************************************************)
DipDone == op = "check_buy_signal" /\ pc = "done"
Evaluated == DipDone /\ Len(data) >= MinBars

\* gains and losses of the last 14 close-to-close moves
LastGains == SumRange([i \in 1..Len(data) |->
                 IF i > 1 /\ data[i].Close > data[i - 1].Close
                 THEN data[i].Close - data[i - 1].Close ELSE 0],
                 Len(data) - 13, Len(data))
LastLosses == SumRange([i \in 1..Len(data) |->
                 IF i > 1 /\ data[i].Close < data[i - 1].Close
                 THEN data[i - 1].Close - data[i].Close ELSE 0],
                 Len(data) - 13, Len(data))
\* RSI = 100 * gains / (gains + losses) is defined and below 30
OversoldCond == LastLosses > 0 /\ 100 * LastGains < 30 * (LastGains + LastLosses)
CloseSum(lo, hi) == SumRange([i \in 1..Len(data) |-> data[i].Close], lo, hi)
\* the last close is more than 5% below the mean of the last 20 closes
BelowSma20Cond ==
    LET s20 == CloseSum(Len(data) - 19, Len(data))
    IN  100 * (20 * data[Len(data)].Close - s20) < -5 * s20
\* SMA200 of the previous bar exists and is exceeded by the last bar's
Sma200RisingCond ==
    /\ Len(data) > 200
    /\ CloseSum(Len(data) - 199, Len(data)) > CloseSum(Len(data) - 200, Len(data) - 1)
DipTrendCond == BelowSma20Cond /\ Sma200RisingCond

\* C1: on a series of at least 200 bars has_signal is true exactly when the
\* last RSI(14) is below 30, or the last close is more than 5% below SMA20
\* while SMA200 rose over the last bar.
C1_HasSignalIff ==
    Evaluated => (signal.has_signal <=> (OversoldCond \/ DipTrendCond))
\* a signal raised by the dip-with-trend condition alone
C1_Witness == Evaluated /\ signal.has_signal /\ ~OversoldCond /\ DipTrendCond

\* C2: a series of fewer than 200 bars gets the insufficient-data outcome:
\* no signal, the insufficient-data reason, and no rsi, price_vs_sma20 or
\* sma200_trend.
C2_ShortSeriesRefused ==
    (DipDone /\ Len(data) < MinBars) =>
        /\ signal.has_signal = FALSE
        /\ signal.reason = <<"Insufficient data for analysis">>
        /\ signal.rsi = None
        /\ signal.price_vs_sma20 = None
        /\ signal.sma200_trend = "None"
C2_Witness == DipDone /\ Len(data) = MinBars - 1 /\ signal.has_signal = FALSE

B2N(b) == IF b THEN 1 ELSE 0
\* C3: on a series of at least 200 bars the reason is the oversold reason
\* (if RSI < 30) followed by the dip-with-trend reason (if it holds), joined
\* by ", "; it is 'No signal' exactly when has_signal is false; an oversold
\* RSI gives a signal whose reason contains the oversold text; sma200_trend
\* is Positive or Negative.
C3_ReasonListsConditions ==
    Evaluated =>
        LET r == signal.reason
            k == IF OversoldCond THEN 4 ELSE 0
        IN  /\ (r = <<"No signal">>) <=> ~signal.has_signal
            /\ (~OversoldCond /\ ~DipTrendCond) => r = <<"No signal">>
            /\ (OversoldCond \/ DipTrendCond) =>
                   Len(r) = 3 * B2N(OversoldCond) + 3 * B2N(DipTrendCond)
                            + B2N(OversoldCond /\ DipTrendCond)
            /\ OversoldCond =>
                   /\ signal.has_signal
                   /\ r[1] = "RSI oversold (" /\ r[2] = Fmt1(signal.rsi) /\ r[3] = ")"
            /\ (OversoldCond /\ DipTrendCond) => r[4] = ", "
            /\ DipTrendCond =>
                   /\ r[k + 1] = "Price "
                   /\ r[k + 3] = "% below 20-SMA with positive trend"
            /\ signal.sma200_trend \in {"Positive", "Negative"}
\* both conditions hold and both reasons are listed
C3_Witness ==
    Evaluated /\ OversoldCond /\ DipTrendCond /\ Len(signal.reason) = 7

(***************************************************************************)
(* Properties of the market trend classifier.  The comparisons are         *)
(* restated over the raw closes: an SMA of window w exists only from bar w *)
(* on, and a comparison with a missing SMA does not hold.                  *)
(***************************************************************************)
TrendDone == op = "get_market_trend" /\ pc = "done"
Bench == hist.rows
BenchSum(w) == SumRange([i \in 1..Len(Bench) |-> Bench[i].Close],
                        Len(Bench) - w + 1, Len(Bench))
HasSma200 == Len(Bench) >= 200
CloseAboveSma200 == HasSma200 /\ 200 * Bench[Len(Bench)].Close > BenchSum(200)
CloseAtOrBelowSma200 == HasSma200 /\ 200 * Bench[Len(Bench)].Close <= BenchSum(200)
Sma50AboveSma200 == HasSma200 /\ 200 * BenchSum(50) > 50 * BenchSum(200)
Sma50AtOrBelowSma200 == HasSma200 /\ 200 * BenchSum(50) <= 50 * BenchSum(200)
TrendStates == {"Uptrend", "Uptrend Under Pressure", "Market in Correction"}
FetchSucceeded == ~hist.raised /\ Bench # <<>>

\* C4: whenever the benchmark fetch succeeds the status is one of the three
\* trend states: Uptrend iff close > SMA200 and SMA50 > SMA200, Uptrend
\* Under Pressure iff close > SMA200 and SMA50 <= SMA200, Market in
\* Correction iff close <= SMA200.
C4_ThreeStatesByPriority ==
    (TrendDone /\ FetchSucceeded) =>
        /\ trend.status \in TrendStates
        /\ trend.status = "Uptrend" <=> (CloseAboveSma200 /\ Sma50AboveSma200)
        /\ trend.status = "Uptrend Under Pressure" <=>
               (CloseAboveSma200 /\ Sma50AtOrBelowSma200)
        /\ trend.status = "Market in Correction" <=> CloseAtOrBelowSma200

ColorOf(status) ==
    CASE status = "Uptrend" -> "green"
      [] status = "Uptrend Under Pressure" -> "orange"
      [] status = "Market in Correction" -> "red"
      [] OTHER -> "grey"
SentinelKeys == {"status", "color", "reason"}

\* C5 as stated: the color is fixed by the state, and on an exception or an
\* empty benchmark series the result is the state Error with color grey,
\* the failure reason and no indicator values.
C5_FailureIsError ==
    TrendDone =>
        /\ trend.status \in TrendStates => trend.color = ColorOf(trend.status)
        /\ (hist.raised \/ Bench = <<>>) =>
               /\ trend.status = "Error"
               /\ trend.color = "grey"
               /\ DOMAIN trend = SentinelKeys
        /\ hist.raised => trend.reason = hist.msg

\* C5 as amended: the color is fixed by the state; an exception gives the
\* state Error, grey, with the exception's message; an empty benchmark
\* series gives the state Unknown, grey, with the reason 'Data
\* unavailable'; neither carries indicator values.
C5_FailureIsErrorOrUnknown ==
    TrendDone =>
        /\ trend.status \in TrendStates => trend.color = ColorOf(trend.status)
        /\ hist.raised =>
               /\ trend.status = "Error"
               /\ trend.color = "grey"
               /\ trend.reason = hist.msg
               /\ DOMAIN trend = SentinelKeys
        /\ (~hist.raised /\ Bench = <<>>) =>
               /\ trend.status = "Unknown"
               /\ trend.color = "grey"
               /\ trend.reason = "Data unavailable"
               /\ DOMAIN trend = SentinelKeys
        /\ trend.status \in TrendStates \cup {"Error", "Unknown"}
\* the empty benchmark series has been reported
C5_Witness ==
    TrendDone /\ ~hist.raised /\ Bench = <<>> /\ trend.status = "Unknown"

\* C6: a benchmark series of fewer than 200 bars is never classified as
\* Uptrend, Uptrend Under Pressure or Market in Correction.
C6_ShortBenchmarkRefused ==
    (TrendDone /\ ~hist.raised /\ Len(Bench) < MinBars) =>
        trend.status \notin TrendStates

(***************************************************************************)
(* Properties of the CAN SLIM scorer.                                      *)
(***************************************************************************)
KeySet == {"C", "A", "N", "S", "L", "I"}
\* check_canslim_criteria was called and returned a report
ReportReturned ==
    /\ op \in {"check_canslim_criteria", "canslim_screener"}
    /\ pc = "done"
    /\ result.exc = ""
Report == result.value
\* the report comes from the scoring path, not from the early return
Scored == ReportReturned /\ hist_data # None /\ fund_data # None
PassCount == Cardinality({k \in KeySet : Report[k].pass})
NonEmptyText(t) == \E i \in DOMAIN t : t[i] # ""

\* C7: the number of passing criteria is in 0..6, Overall is true exactly
\* when it is at least 5, and the Score the screener loop recomputes from the
\* pass flags is that number.
C7_ScoreRangeAndOverall ==
    ReportReturned =>
        /\ PassCount \in 0..6
        /\ Report.Overall <=> PassCount >= 5
        /\ op = "canslim_screener" =>
              /\ Len(dataset) = 1
              /\ dataset[1].Score = PassCount
              /\ dataset[1].Overall <=> dataset[1].Score >= 5
\* the screener has appended a row with five passing criteria
C7_Witness ==
    /\ ReportReturned /\ op = "canslim_screener"
    /\ Len(dataset) = 1 /\ dataset[1].Score = 5 /\ dataset[1].Overall

TierText(n) ==
    IF n >= 5 THEN ":fire: **STRONG BUY CANDIDATE** ("
    ELSE IF n >= 3 THEN ":warning: **WATCHLIST CANDIDATE** ("
    ELSE ":no_entry: **AVOID** ("

\* C8: the first Justification entry of a scored report names the tier of
\* the score (Strong Buy from 5, Watchlist for 3 and 4, Avoid below 3) and
\* reports the count of passing criteria.
C8_TierLine ==
    Scored => Report.Justification[1] =
                 <<TierText(PassCount), ToString(PassCount), "/6 Criteria)">>
\* a report at the lower edge of the Watchlist tier
C8_Witness ==
    /\ Scored /\ PassCount = 3
    /\ Report.Justification[1][1] = ":warning: **WATCHLIST CANDIDATE** ("

\* C9 as stated: every report returned, the early return included, carries
\* a non-empty reason for each of the six criteria.
C9_ReasonsOnEveryPath ==
    ReportReturned => \A k \in KeySet : NonEmptyText(Report[k].reason)

\* C9 as amended: every report of the scoring path carries a non-empty
\* reason for each of the six criteria, passing or failing, in every tier;
\* the early return carries six empty reasons and the one justification
\* 'Insufficient data for analysis'.
C9_ReasonsWhenScored ==
    ReportReturned =>
        IF hist_data = None \/ fund_data = None
        THEN /\ \A k \in KeySet : Report[k].reason = <<>> /\ ~Report[k].pass
             /\ Report.Justification = << <<"Insufficient data for analysis">> >>
        ELSE \A k \in KeySet : NonEmptyText(Report[k].reason)
\* a scored report with passing and failing criteria, all with reasons
C9_Witness ==
    /\ Scored /\ PassCount = 3
    /\ \A k \in KeySet : NonEmptyText(Report[k].reason)

\* the six rules, restated over the inputs
FundVal(section, key) ==
    IF section \in DOMAIN fund_data /\ key \in DOMAIN fund_data[section]
    THEN fund_data[section][key] ELSE None
Exceeds(x, pct) == x.kind = "num" /\ 100 * x.num > pct * x.den
Rows == hist_data.rows
LastClose == Rows[Len(Rows)].Close
RuleC == Exceeds(FundVal("growth", "earnings_quarterly_growth"), 20)
RuleA == \/ Exceeds(FundVal("growth", "earnings_growth"), 15)
         \/ Exceeds(FundVal("profitability", "return_on_equity"), 17)
RuleN == \E i \in 1..Len(Rows) :
            /\ \A j \in 1..Len(Rows) : Rows[j].High <= Rows[i].High
            /\ 100 * (Rows[i].High - LastClose) < 15 * Rows[i].High
RuleS ==
    LET lo == IF Len(Rows) > 20 THEN Len(Rows) - 19 ELSE 1
        k == Len(Rows) - lo + 1
        vol == Num(SumRange([i \in 1..Len(Rows) |-> Rows[i].Volume], lo, Len(Rows)), k)
        cls == Num(SumRange([i \in 1..Len(Rows) |-> Rows[i].Close], lo, Len(Rows)), k)
    IN  Gt(Mul(vol, cls), Flt(50000000))
RuleL == 100 * (LastClose - Rows[1].Close) > 20 * Rows[1].Close
RuleI == LET cap == FundVal("valuation", "market_cap")
         IN  cap.kind = "num" /\ cap.num > 2000 * cap.den
RulesHolding ==
    B2N(RuleC) + B2N(RuleA) + B2N(RuleN) + B2N(RuleS) + B2N(RuleL) + B2N(RuleI)

HasFragment(t, f) == \E i \in DOMAIN t : t[i] = f

\* C11: an absent metric is distinguished from a metric reported as 0: the
\* reason of C says N/A exactly when quarterly growth is absent, and a
\* passing A prints an annual growth of 0.0 only for a growth reported as 0.
C11_AbsentDistinctFromZero ==
    Scored =>
        /\ HasFragment(Report.C.reason, "N/A")
              <=> FundVal("growth", "earnings_quarterly_growth") = None
        /\ (Report.A.pass /\ Report.A.reason[2] = "0.0")
              => FundVal("growth", "earnings_growth") = Flt(0)

(***************************************************************************)
(* Properties of the predictive pipeline.                                  *)
(***************************************************************************)
AiRun == op \in Callers
\* the download returned a series, and the run is past input validation
Downloaded == AiRun /\ ~stocks[idx].fetched.raised
Candles == stocks[idx].fetched.rows
Validated == Downloaded /\ stage \notin {"Idle", "Fetched"}
InsufficientIntraday == Str("Insufficient intraday data (need >100 candles)")

\* C12: a downloaded series of fewer than 100 bars (99 bars, 1 bar, none)
\* ends in (None, None, 'Insufficient intraday data ...'); a series of 100
\* bars or more passes validation and goes on to feature engineering.
C12_InputValidation ==
    Validated =>
        IF Len(Candles) < 100
        THEN /\ stage = "Failed"
             /\ ret = [model |-> None, train_info |-> None,
                       error |-> InsufficientIntraday]
        ELSE /\ ret.error # InsufficientIntraday
             /\ frame.data = Candles
             /\ stage = "Failed" =>
                   \/ ret.error.text \in LibraryErrors
                   \/ /\ ret.error = Str("Not enough data after feature engineering")
                      /\ Len(prepare_ai_features(Candles)) < 50
\* a series of exactly 99 bars has been refused
C12_Witness ==
    /\ Validated /\ Len(Candles) = 99 /\ stage = "Failed"
    /\ ret.error = InsufficientIntraday

IsSuccess(r) == r.model # None /\ r.train_info # None /\ r.error = None
IsFailure(r) == r.model = None /\ r.train_info = None /\ r.error.kind = "str"
HasReturned == stage \in {"Failed", "Predicted", "Done"}

\* C13: train_intraday_model returns either (model, summary, None) with both
\* non-null or (None, None, reason) with a reason; a failure at the fetch,
\* featurize, split, train or evaluate step gives the second, and a reason
\* never comes with a model or a summary.
C13_TwoOutcomes ==
    AiRun =>
        /\ HasReturned => (IsSuccess(ret) \/ IsFailure(ret))
        /\ ~(IsSuccess(ret) /\ IsFailure(ret))
        /\ stage = "Failed" => IsFailure(ret)
        /\ stage \in {"Predicted", "Done"} => IsSuccess(ret)
        /\ ~HasReturned => ret = NoRet
        /\ ret.error # None => (ret.model = None /\ ret.train_info = None)
        /\ pc = "done" => HasReturned
\* a model was fitted, the evaluation raised, and no model came back
C13_Witness ==
    /\ AiRun /\ stage = "Failed" /\ frame.model # None
    /\ ret.model = None /\ ret.train_info = None /\ ret.error = Str("XGBoostError")

StageOrder ==
    <<"Idle", "Fetched", "Featurized", "Split", "Trained", "Evaluated",
      "Predicted", "Done">>
StagePos(st) == CHOOSE k \in 1..Len(StageOrder) : StageOrder[k] = st

\* C14: a run moves through Idle, Fetched, Featurized, Split, Trained,
\* Evaluated, Predicted and the terminal stage one stage at a time; the only
\* other step is from a stage to terminal failure; and from Evaluated the
\* run always goes on to return the fitted model, whatever the accuracy.
C14_StageOrder ==
    [][AiRun =>
          /\ stage' # stage =>
                \/ /\ stage \in {"Idle", "Fetched", "Featurized", "Split", "Trained"}
                   /\ stage' = "Failed"
                \/ /\ stage \notin {"Failed", "Done"}
                   /\ stage' \notin {"Failed", "Idle"}
                   /\ StagePos(stage') = StagePos(stage) + 1
          /\ stage = "Evaluated" =>
                /\ stage' = "Predicted"
                /\ ret'.model = frame.model /\ ret'.model # None
                /\ ret'.train_info.accuracy = frame.acc
          /\ stage \in {"Failed", "Done"} => stage' = stage]_vars
\* a run that measured an accuracy below one half ended with its model
C14_Witness ==
    /\ AiRun /\ stage = "Done" /\ pc = "done"
    /\ Lt(frame.acc, Half) /\ ret.model # None /\ prob_up # None

\* prepare_ai_features has returned its table
Featurized == AiRun /\ frame.df_model # <<>>

\* C15: no retained row has an undefined feature or label, the final bar of
\* the series is never retained, every retained label was computed from the
\* bar that follows, and last_data is never the final input bar.
C15_FinalBarDropped ==
    Featurized =>
        /\ \A k \in 1..Len(frame.df_model) :
              LET row == frame.df_model[k]
              IN  /\ notna(row)
                  /\ row.t < Len(frame.data)
                  /\ row.Target =
                        (IF frame.data[row.t + 1].Close > frame.data[row.t].Close
                         THEN Flt(1) ELSE Flt(0))
        /\ IsSuccess(ret) => ret.train_info.last_data.t # Len(frame.data)

\* the split has been made
SplitDone == AiRun /\ frame.split > 0
\* floor(0.8 * n)
FloorFourFifths(n) == CHOOSE k \in 0..n : 5 * k <= 4 * n /\ 4 * n < 5 * (k + 1)

\* C16: the training set is exactly the first floor(0.8*n) rows of the
\* featurized table and the test set exactly the remaining rows, in order,
\* so every test row is strictly later than every training row; the model
\* is fitted on the training rows.
C16_ChronologicalSplit ==
    SplitDone =>
        LET df == frame.df_model
            n == Len(df)
            k == FloorFourFifths(n)
        IN  /\ frame.train = [i \in 1..k |-> df[i]]
            /\ frame.test = [i \in 1..(n - k) |-> df[k + i]]
            /\ \A i \in 1..Len(frame.train), j \in 1..Len(frame.test) :
                  frame.train[i].t < frame.test[j].t
            /\ frame.model # None => frame.model.fitted = [i \in 1..k |-> df[i].t]
\* a table of 81 rows has been split into 64 and 17 and the model fitted
C16_Witness ==
    /\ SplitDone /\ Len(frame.df_model) = 81
    /\ Len(frame.train) = 64 /\ Len(frame.test) = 17 /\ frame.model # None

TestBars == {frame.test[j].t : j \in 1..Len(frame.test)}
\* the series with the closes of the test bars replaced by the base price
MaskedTest == [i \in 1..Len(frame.data) |->
                  IF i \in TestBars THEN IBar(BasePrice) ELSE frame.data[i]]

\* C17: nothing given to training depends on a bar of the test split: the
\* features and the label of a training row are computed from bars outside
\* the test split, so the training labels are the same whatever the prices
\* of the test bars are.
C17_NoLookAhead ==
    SplitDone =>
        \A i \in 1..Len(frame.train) :
            LET row == frame.train[i]
            IN  /\ feature_deps(frame.data, row.t) \cap TestBars = {}
                /\ label_deps(frame.data, row.t) \cap TestBars = {}
                /\ row.Target = ai_target(MaskedTest, row.t)

\* predict_next_move has returned
Predicted == op \in Callers \cup {"predict_next_move"} /\ prob_up # None

\* C18: predict_next_move returns a value in [0,1] and raises nothing: the
\* class-1 probability when the classifier answers, and exactly 0.5 when the
\* model is null or the frame construction or the classifier raises.
C18_PredictNeverRaises ==
    Predicted =>
        /\ exc = ""
        /\ prob_up.kind = "num" /\ 0 <= prob_up.num /\ prob_up.num <= prob_up.den
        /\ (ret.model # None /\ ~frame.proba.raised) => prob_up = frame.proba.p
        /\ (ret.model = None \/ frame.proba.raised) =>
              (prob_up.num = 1 /\ prob_up.den = 2)
\* called with a null model, the predictor answered 0.5
C18_Witness ==
    /\ op = "predict_next_move" /\ pc = "done"
    /\ ret.model = None /\ ~frame.proba.raised /\ frame.proba.p = Flt(1)
    /\ prob_up = Num(1, 2)

BullishTexts == {"Bullish", "Bullish :green_circle:", "BULLISH :green_circle:"}
BearishTexts == {"Bearish", "Bearish :red_circle:", "BEARISH :red_circle:"}
\* max(P, 1 - P)
MaxOfBoth(q) == IF 2 * q.num >= q.den THEN q ELSE Num(q.den - q.num, q.den)
\* the entry reads P as the rule says
ReadsByRule(entry, q) ==
    /\ entry.Signal \in BullishTexts <=> 2 * q.num > q.den
    /\ entry.Signal \in BearishTexts <=> 2 * q.num <= q.den
    /\ entry.Confidence = MaxOfBoth(q)
    /\ 2 * entry.Confidence.num >= entry.Confidence.den
    /\ entry.Confidence.num <= entry.Confidence.den
Reported == AiRun /\ stage = "Done"

\* C19 as stated: for every probability every caller reports a signal,
\* Bullish iff P > 0.5 and Bearish otherwise, with confidence max(P, 1-P).
C19_EveryCallerClassifies ==
    Reported => (Len(results) = 1 /\ ReadsByRule(results[1], prob_up))

\* C19 as amended: the single-stock view and the index scanner report a
\* signal for every P, scan_market only for P > 0.6 or P < 0.4; every
\* signal reported is Bullish iff P > 0.5 and Bearish otherwise, with
\* confidence max(P, 1-P).
C19_ReportedSignalsFollowRule ==
    Reported =>
        /\ Len(results) <= 1
        /\ Len(results) = 1 <=>
              \/ op # "scan_market"
              \/ 5 * prob_up.num > 3 * prob_up.den
              \/ 5 * prob_up.num < 2 * prob_up.den
        /\ \A k \in 1..Len(results) : ReadsByRule(results[k], prob_up)
\* the index scanner read P = 0.5 as Bearish with confidence 0.5
C19_Witness ==
    /\ Reported /\ op = "index_scanner" /\ prob_up = Num(1, 2)
    /\ Len(results) = 1 /\ results[1].Signal = "Bearish :red_circle:"
    /\ results[1].Confidence = Num(1, 2)

(***************************************************************************)
(* Properties of the batch dip scan.                                       *)
(***************************************************************************)
ScanRun == op = "scan_stocks_for_dips"
FetchFailed(st) == st.fetched.raised \/ st.fetched.rows = <<>>
\* the reason string fetch_stock_data returns for a failed fetch
FetchReason(st) ==
    IF st.fetched.raised
    THEN <<"Error fetching data for ", st.symbol, ": ", st.fetched.msg>>
    ELSE <<"No data found for symbol: ", st.symbol>>

\* C20: the scan appends one entry per symbol in input order and returns
\* only at the end of the list; a failed fetch gives an entry with error
\* true, has_signal false and the fetch's reason, any other symbol gives
\* the evaluation of its own series, whatever happened to the others.
C20_ScanIsolatesFailures ==
    ScanRun =>
        /\ exc = ""
        /\ Len(results) = idx - 1
        /\ pc = "done" => Len(results) = Len(stocks)
        /\ idx \in 1..(Len(stocks) + 1)
        /\ \A k \in 1..Len(results) :
              /\ results[k].symbol = stocks[k].symbol
              /\ IF FetchFailed(stocks[k])
                 THEN /\ results[k].error = TRUE
                      /\ results[k].has_signal = FALSE
                      /\ results[k].reason = FetchReason(stocks[k])
                 ELSE LET own == check_buy_signal(stocks[k].fetched.rows)
                      IN  /\ results[k].error = FALSE
                          /\ \A f \in DOMAIN own : results[k][f] = own[f]
\* the first symbol's fetch raised, the second symbol was evaluated and
\* signalled, and the scan returned both entries
C20_Witness ==
    /\ ScanRun /\ pc = "done" /\ Len(stocks) = 2 /\ Len(results) = 2
    /\ stocks[1].fetched.raised /\ results[1].error
    /\ ~results[2].error /\ results[2].has_signal

(***************************************************************************)
(* Properties of the batch scans of the predictive pipeline.               *)
(***************************************************************************)
BatchRun == op \in BatchCallers
\* the loop body has finished with the symbol at idx
SymbolHandled == BatchRun /\ pc \in {"next", "done"}
\* the training call for the symbol at idx failed and the loop dealt with it
FailureHandled == SymbolHandled /\ stage = "Failed"
\* an error entry of the result set for a symbol, carrying a reason
ErrorEntry(entry, symbol, reason) ==
    /\ entry.Symbol = symbol
    /\ "Error" \in DOMAIN entry
    /\ entry.Error = reason

\* C21: once the loop has dealt with a symbol whose training failed, the
\* result set holds an error entry for that symbol carrying the reason
\* string train_intraday_model returned.
C21_FailureGivesErrorEntry ==
    FailureHandled =>
        \E k \in 1..Len(results) : ErrorEntry(results[k], stocks[idx].symbol, ret.error)

\* C22: check_canslim_criteria has returned a report (or an error value) and
\* raised nothing, whatever series and fundamentals it was called with, an
\* empty series with a non-null snapshot and a snapshot without sections
\* included.
C22_NoRaisePastBoundary ==
    (op = "check_canslim_criteria" /\ pc = "done") =>
        (result.exc = "" /\ exc = "")

\* the last entries of a sequence are the given ones
EndsWith(seq, suffix) ==
    /\ Len(suffix) <= Len(seq)
    /\ \A k \in 1..Len(suffix) : seq[Len(seq) - Len(suffix) + k] = suffix[k]
\* predict_next_move has been called in the iteration for the symbol at idx
PredictedInLoop == BatchRun /\ stage \in {"Predicted", "Done"}

\* C23: in a batch scan the predictor is called with the classifier fitted
\* in the same iteration on the symbol's own rows, with the last row of the
\* symbol's own table and the feature-name list, all as returned by the
\* iteration's own training call; the entry recorded for the symbol is
\* computed from that prediction; no entry belongs to a symbol the loop has
\* not reached.
C23_ModelUsedForOwnSymbol ==
    BatchRun =>
        /\ PredictedInLoop =>
              /\ frame.args.model = frame.model
              /\ frame.args.model.symbol = stocks[idx].symbol
              /\ frame.args.model.fitted = [k \in 1..Len(frame.train) |-> frame.train[k].t]
              /\ frame.data = stocks[idx].fetched.rows
              /\ frame.args.last_data = frame.df_model[Len(frame.df_model)]
              /\ frame.args.model = ret.model
              /\ frame.args.last_data = ret.train_info.last_data
              /\ frame.args.feature_cols = ret.train_info.feature_cols
              /\ prob_up = (IF frame.proba.raised THEN Num(1, 2) ELSE frame.proba.p)
        /\ ~PredictedInLoop => (frame.args = None /\ prob_up = None)
        /\ stage = "Done" =>
              EndsWith(results,
                       IF op = "scan_market"
                       THEN scan_market_entry(stocks[idx].symbol, prob_up)
                       ELSE index_scanner_entry(stocks[idx].symbol, prob_up,
                                                ret.train_info))
        /\ \A k \in 1..Len(results) :
              \E j \in 1..idx : results[k].Symbol = stocks[j].symbol
\* the second symbol of a list was predicted with its own model and row
\* after the first symbol had been trained and predicted
C23_Witness ==
    /\ op = "index_scanner" /\ idx = 2 /\ stage = "Done" /\ Len(results) = 2
    /\ results[1].Symbol = "RELIANCE" /\ results[2].Symbol = "TCS"
    /\ frame.args.model.symbol = "TCS"
    /\ stocks[1].fetched # stocks[2].fetched
    /\ frame.args.last_data = frame.df_model[Len(frame.df_model)]

(***************************************************************************)
(* Properties of the indicator functions.  Means and averages are restated *)
(* as plain sums over the raw closes.                                      *)
(***************************************************************************)
IndicatorsDone == op = "indicators" /\ pc = "done"
RECURSIVE NaiveSum(_, _, _)
\* closes of bars lo..hi added one by one
NaiveSum(d, lo, hi) == IF lo > hi THEN 0 ELSE d[hi].Close + NaiveSum(d, lo, hi - 1)
IsNaN(x) == x.kind = "nan"

\* C24: calculate_sma returns one value per bar; the first W-1 are NaN and
\* the remaining N-W+1 are defined, each the sum of the closes of the W
\* bars ending at its bar, divided by W.
C24_SmaIsTrailingMean ==
    IndicatorsDone =>
        LET sma == indicators.sma
            N == Len(data)
            W == sma_window
        IN  /\ Len(sma) = N
            /\ \A i \in 1..N :
                  IF i <= W - 1 THEN IsNaN(sma[i])
                  ELSE /\ IsNum(sma[i])
                       /\ sma[i].num * W = NaiveSum(data, i - W + 1, i) * sma[i].den
            /\ Cardinality({i \in 1..N : IsNaN(sma[i])}) = W - 1
            /\ Cardinality({i \in 1..N : IsNum(sma[i])}) = N - W + 1
\* closes 90, 100, 110 with window 2: NaN, 95, 105
C24_Witness ==
    /\ IndicatorsDone /\ sma_window = 2
    /\ Close(data) = <<90, 100, 110>>
    /\ indicators.sma = <<NaN, Flt(95), Flt(105)>>

\* C25: every RSI value that is not NaN, from calculate_rsi and from the RSI
\* column of prepare_ai_features, is a number between 0 and 100.
C25_RsiBounded ==
    IndicatorsDone =>
        \A i \in 1..Len(data) :
            \A r \in {indicators.rsi[i], indicators.ai_rsi[i]} :
                ~IsNaN(r) => (IsNum(r) /\ 0 <= r.num /\ r.num <= 100 * r.den)
\* one fall of 10 and one rise of 20 in the window: RSI = 100 - 100/3
C25_Witness ==
    /\ IndicatorsDone /\ Len(data) = RsiPeriod + 2
    /\ data[Len(data) - 1].Close = 90 /\ data[Len(data)].Close = 110
    /\ data[1].Close = BasePrice
    /\ indicators.rsi[Len(data)] = Num(200, 3)
    /\ indicators.ai_rsi[Len(data)] = Num(200, 3)

\* rises and falls of the closes over the RSI window ending at bar i
WindowGain(d, i) ==
    NaiveSum([k \in 1..Len(d) |->
                 [Close |-> IF k > 1 /\ d[k].Close > d[k - 1].Close
                            THEN d[k].Close - d[k - 1].Close ELSE 0]],
             i - RsiPeriod + 1, i)
WindowLoss(d, i) ==
    NaiveSum([k \in 1..Len(d) |->
                 [Close |-> IF k > 1 /\ d[k].Close < d[k - 1].Close
                            THEN d[k - 1].Close - d[k].Close ELSE 0]],
             i - RsiPeriod + 1, i)

\* C26: past the warm-up prefix no RSI is NaN; a window without a fall has
\* RSI 100 when it has a rise and RSI 50 when it is flat.
C26_SaturatingRule ==
    IndicatorsDone =>
        \A i \in RsiPeriod..Len(data) :
            \A r \in {indicators.rsi[i], indicators.ai_rsi[i]} :
                /\ ~IsNaN(r)
                /\ (WindowLoss(data, i) = 0 /\ WindowGain(data, i) > 0) => r = Flt(100)
                /\ (WindowLoss(data, i) = 0 /\ WindowGain(data, i) = 0) => r = Flt(50)

\* C27: in a batch scan predict_next_move is called only with the non-null
\* model and summary of the symbol's own training call; after any failure
\* of train_intraday_model, one with an empty message included, the loop
\* skips the prediction and raises nothing by subscripting the null summary.
C27_PredictionSkippedOnFailure ==
    BatchRun =>
        /\ PredictedInLoop => (ret.model # None /\ ret.train_info # None)
        /\ stage = "Failed" =>
              /\ frame.args = None /\ prob_up = None
              /\ caller.raised = "" /\ exc = ""

(***************************************************************************)
(* Further properties of the dip signal evaluator and of the dip scan.     *)
(***************************************************************************)
\* C28: a series of exactly 200 bars is evaluated, not refused; SMA200 has
\* no value at the previous bar, so sma200_trend is Negative, the reason
\* never names the dip with positive trend, and has_signal is true exactly
\* when RSI is below 30.
C28_ExactlyMinBars ==
    (DipDone /\ Len(data) = 200) =>
        /\ signal.reason # <<"Insufficient data for analysis">>
        /\ signal.rsi # None /\ signal.price_vs_sma20 # None
        /\ signal.sma200_trend = "Negative"
        /\ \A k \in 1..Len(signal.reason) :
              signal.reason[k] # "% below 20-SMA with positive trend"
        /\ signal.has_signal <=> OversoldCond
\* 200 bars, the last close more than 5% below SMA20, RSI not below 30: no
\* signal
C28_Witness ==
    /\ DipDone /\ Len(data) = 200
    /\ BelowSma20Cond /\ ~OversoldCond
    /\ ~signal.has_signal /\ signal.sma200_trend = "Negative"

EntryFields ==
    {"symbol", "error", "has_signal", "reason", "rsi", "price_vs_sma20",
     "sma200_trend", "current_price"}

\* C29: every entry scan_stocks_for_dips has appended, from a failed fetch,
\* from a series shorter than 200 bars or from a full evaluation, has
\* exactly the fields symbol, error, has_signal, reason, rsi,
\* price_vs_sma20, sma200_trend and current_price, and an entry with error
\* true has has_signal false.
C29_UniformEntries ==
    ScanRun =>
        \A k \in 1..Len(results) :
            /\ DOMAIN results[k] = EntryFields
            /\ results[k].error => ~results[k].has_signal

(***************************************************************************)
(* Further properties of the predictive pipeline.                          *)
(***************************************************************************)
NotEnoughRows == Str("Not enough data after feature engineering")
PastSplitCheck == AiRun /\ stage \in {"Split", "Trained", "Evaluated", "Predicted", "Done"}
RowBars(rows) == {rows[k].t : k \in 1..Len(rows)}

\* C30: a run that got past the row check split a table of n >= 50 rows
\* into floor(0.8*n) >= 40 training rows and n - floor(0.8*n) >= 10 test
\* rows, disjoint and together holding every row of the table once; a
\* model is fitted only after such a split; a table of fewer than 50 rows
\* ends in (None, None, 'Not enough data after feature engineering').
C30_SplitSizes ==
    AiRun =>
        LET df == frame.df_model
            n == Len(df)
        IN  /\ (PastSplitCheck \/ frame.model # None) => SplitDone
            /\ SplitDone =>
                  /\ n >= 50
                  /\ Len(frame.train) = (4 * n) \div 5 /\ Len(frame.train) >= 40
                  /\ Len(frame.test) = n - (4 * n) \div 5 /\ Len(frame.test) >= 10
                  /\ RowBars(frame.train) \cap RowBars(frame.test) = {}
                  /\ RowBars(frame.train) \cup RowBars(frame.test) = RowBars(df)
                  /\ Cardinality(RowBars(df)) = n
                  /\ frame.train \o frame.test = df
            /\ (n < 50 /\ stage # "Featurized" /\ df # <<>>) =>
                  /\ stage = "Failed"
                  /\ ret = [model |-> None, train_info |-> None, error |-> NotEnoughRows]
                  /\ frame.model = None /\ frame.split = 0
            /\ (stage = "Failed" /\ ret.error = NotEnoughRows) =>
                  (n < 50 /\ frame.model = None /\ frame.split = 0)
\* a table of exactly 50 rows was split into 40 and 10 and a model fitted
C30_Witness ==
    /\ AiRun /\ Len(frame.df_model) = 50 /\ frame.model # None
    /\ Len(frame.train) = 40 /\ Len(frame.test) = 10

====
